---- MODULE Spec2Model ----
(***************************************************************************)
(* Model of hadesmem's Cerberus input layer                               *)
(* (src/examples/cerberus/input.cpp): the cursor / clip-rectangle /        *)
(* raw-input save-restore state machine driven by SetGuiVisibleForInput,  *)
(* the hook handlers that consult the GUI visibility flag, and the         *)
(* deferred window-procedure message queue drained by HandleInputQueue.   *)
(*                                                                         *)
(* Every function of input.cpp is an operator of the same name over a      *)
(* "world" record (the module's statics plus the OS state the function     *)
(* reads and writes).  An OS call that fails makes the function throw:     *)
(* the world's exc field names the failing call and every later statement  *)
(* of the handler is skipped (Ok).                                         *)
(***************************************************************************)
EXTENDS Integers, Sequences, FiniteSets, TLC

(***************************************************************************)
(* Bounds of the model.                                                    *)
(***************************************************************************)
ScreenMax == 2      \* the virtual screen is [0, ScreenMax] x [0, ScreenMax]
MaxShow == 2        \* |OS display count| and |show_cursor_count| stay <= MaxShow
MaxCursor == 3      \* cursor handles are 0 (NULL) .. MaxCursor
MaxDevices == 3     \* length of the registered raw-input device list
MaxPush == 3        \* window messages pushed in one run of the queue model

(***************************************************************************)
(* Program constants (winuser.h values the code compares against).         *)
(***************************************************************************)
WM_INPUT == 255
WM_KEYDOWN == 256
WM_KEYUP == 257
WM_KEYLAST == 265
WM_MOUSEMOVE == 512
WM_MOUSELAST == 526
WM_SIZE == 5
VK_F9 == 120
VK_F8 == 119
HID_USAGE_PAGE_GENERIC == 1
HID_USAGE_GENERIC_MOUSE == 2
HID_USAGE_GENERIC_JOYSTICK == 4
HID_USAGE_GENERIC_KEYBOARD == 6
RIDEV_NOLEGACY == 48
RIDEV_REMOVE == 1

WM_KEYFIRST == WM_KEYDOWN
WM_MOUSEFIRST == WM_MOUSEMOVE

(***************************************************************************)
(* Values.                                                                 *)
(***************************************************************************)
Min(a, b) == IF a <= b THEN a ELSE b
Max(a, b) == IF a >= b THEN a ELSE b

Coord == 0..ScreenMax
Point == [x : Coord, y : Coord]
ZeroPoint == [x |-> 0, y |-> 0]                      \* POINT{}

MkRect(l, t, r, b) == [left |-> l, top |-> t, right |-> r, bottom |-> b]
ZeroRect == MkRect(0, 0, 0, 0)                       \* RECT{}
\* Rectangles the OS can report as the clip rectangle: inside the screen.
ScreenRects ==
    {rc \in [left : Coord, top : Coord, right : Coord, bottom : Coord] :
        rc.left < rc.right /\ rc.top < rc.bottom}
\* Window rectangles may hang over the screen's edges by one unit.
WinCoord == (0 - 1)..(ScreenMax + 1)
WindowRects ==
    {rc \in [left : WinCoord, top : {0}, right : WinCoord, bottom : {ScreenMax}] :
        rc.left < rc.right}
    \cup {MkRect(0, 0 - 1, ScreenMax, ScreenMax - 1), MkRect(0, 1, ScreenMax, ScreenMax + 1)}

NullCursor == 0
ArrowCursor == 1                                     \* LoadCursorW(nullptr, IDC_ARROW)
Cursors == NullCursor..MaxCursor

NullWindow == 0
HostWindow == 1
OtherWindow == 2
\* GetCurrentWindow(): a handle, whether IsWindow holds of it, its rectangle.
NoWindow == [hwnd |-> NullWindow, valid |-> FALSE, rect |-> ZeroRect]
HostWindowAt(rc) == [hwnd |-> HostWindow, valid |-> TRUE, rect |-> rc]
Windows == {NoWindow} \cup {HostWindowAt(rc) : rc \in WindowRects}

MkDevice(page, usage, flags, target) ==
    [usUsagePage |-> page, usUsage |-> usage, dwFlags |-> flags, hwndTarget |-> target]
IsMouse(device) ==
    device.usUsagePage = HID_USAGE_PAGE_GENERIC /\ device.usUsage = HID_USAGE_GENERIC_MOUSE
IsKeyboard(device) ==
    device.usUsagePage = HID_USAGE_PAGE_GENERIC /\ device.usUsage = HID_USAGE_GENERIC_KEYBOARD
\* Registrations a host makes: mouse, keyboard or joystick, either with legacy
\* messages off and delivered to a window of its own, or plain and delivered to
\* the focus window (NULL).
HostDevices ==
    {MkDevice(HID_USAGE_PAGE_GENERIC, u, ft[1], ft[2]) :
        u \in {HID_USAGE_GENERIC_MOUSE, HID_USAGE_GENERIC_KEYBOARD, HID_USAGE_GENERIC_JOYSTICK},
        ft \in {<<0, NullWindow>>, <<RIDEV_NOLEGACY, OtherWindow>>}}
SameUsage(a, b) == a.usUsagePage = b.usUsagePage /\ a.usUsage = b.usUsage
SeqsUpTo(S, n) == UNION {[1..k -> S] : k \in 0..n}
\* The OS keeps one registration per (usage page, usage).
DeviceLists ==
    {l \in SeqsUpTo(HostDevices, MaxDevices) :
        \A i \in 1..Len(l) : \A j \in 1..Len(l) : i # j => ~SameUsage(l[i], l[j])}

\* Thread identifiers: the host's threads, whose window procedures are hooked,
\* and the overlay's frame thread, which calls HandleInputQueue.
NoThread == 0
HostThreads == {1, 2}
FrameThread == 3
Threads == HostThreads \cup {FrameThread}

\* The OS calls of input.cpp that can fail (each makes its caller throw).
Fails == {"none", "LoadCursorW", "GetCursorPos", "SetCursorPos", "GetClipCursor",
          "ClipCursor", "GetWindowRect", "GetRegisteredRawInputDevices",
          "RegisterMouse", "RegisterKeyboard"}

(***************************************************************************)
(* State.                                                                  *)
(***************************************************************************)
VARIABLES
    \* statics of input.cpp and the GUI visibility flag of render.cpp
    gui_visible,          \* GetGuiVisible()
    old_cursor,           \* GetOldCursor(): std::pair<bool, HCURSOR>
    old_cursor_pos,       \* GetOldCursorPos(): std::pair<bool, POINT>
    old_clip_cursor,      \* GetOldClipCursor(): RECT
    show_cursor_count,    \* GetShowCursorCount(): int
    old_devices,          \* GetOldRawInputDevices(): std::vector<RAWINPUTDEVICE>
    disable,              \* the hooks' disable flags (GetDisable...Hook())
    \* the OS state the code reads and writes
    os_cursor,            \* the cursor ::SetCursor last set
    os_pos,               \* the cursor position
    os_clip,              \* the clip rectangle
    os_show,              \* the cursor display count
    os_devices,           \* the registered raw-input devices
    window,               \* GetWindowInterface().GetCurrentWindow()
    \* the deferred queue and the threads
    queue,                \* GetWndProcInputMsgQueue(): std::queue<WndProcInputMsg>
    mutex,                \* GetWndProcInputMsgQueueMutex(): owner (0: free) and depth
    pc,                   \* where each thread is in WindowProcCallback / HandleInputQueue
    call,                 \* the arguments of each thread's WindowProcCallback call
    last_attached_tid,    \* LazyAttachThreadInput's thread-local, per thread
    last_attached_thread, \* LazyAttachThreadInput's thread-local handle, per thread
    attached,             \* the OS's input attachments <<from, to>>
    alive,                \* the threads that have not exited
    delivered,            \* what the subscribers were called with, in order
    pushed,               \* what WindowProcCallback pushed, in push order
    called,               \* what WindowProcCallback was called with, in lock order
    \* history, for stating the claims
    last,                 \* the last handler call: what was called and what it returned
    before,               \* the OS state when the latest turn-on began, and how it ended
    since                 \* the calls since the latest turn-on that changed the statics

cursorVars == <<gui_visible, old_cursor, old_cursor_pos, old_clip_cursor,
                show_cursor_count, old_devices, disable>>
osVars == <<os_cursor, os_pos, os_clip, os_show, os_devices, window>>
queueVars == <<queue, mutex, pc, call, last_attached_tid, last_attached_thread,
               attached, alive, delivered, pushed, called>>
histVars == <<last, before, since>>
vars == <<cursorVars, osVars, queueVars, histVars>>

(***************************************************************************)
(* The world a handler runs in: the variables above, plus fail (the OS     *)
(* call that fails during this handler call, if any), exc (the call that   *)
(* threw) and ops (the saves and restores the handler has performed).      *)
(***************************************************************************)
World(f) ==
    [gui_visible |-> gui_visible, old_cursor |-> old_cursor,
     old_cursor_pos |-> old_cursor_pos, old_clip_cursor |-> old_clip_cursor,
     show_cursor_count |-> show_cursor_count, old_devices |-> old_devices,
     disable |-> disable,
     os_cursor |-> os_cursor, os_pos |-> os_pos, os_clip |-> os_clip,
     os_show |-> os_show, os_devices |-> os_devices, window |-> window,
     fail |-> f, exc |-> "none", ops |-> <<>>]

Commit(w) ==
    /\ gui_visible' = w.gui_visible
    /\ old_cursor' = w.old_cursor
    /\ old_cursor_pos' = w.old_cursor_pos
    /\ old_clip_cursor' = w.old_clip_cursor
    /\ show_cursor_count' = w.show_cursor_count
    /\ old_devices' = w.old_devices
    /\ disable' = w.disable
    /\ os_cursor' = w.os_cursor
    /\ os_pos' = w.os_pos
    /\ os_clip' = w.os_clip
    /\ os_show' = w.os_show
    /\ os_devices' = w.os_devices
    /\ window' = w.window

\* HADESMEM_DETAIL_THROW_EXCEPTION after the OS call `api` failed.
Throw(w, api) == [w EXCEPT !.exc = api]
\* No exception is in flight: the next statement runs.
Ok(w) == w.exc = "none"
Did(w, op) == [w EXCEPT !.ops = Append(@, op)]

(***************************************************************************)
(* The OS calls, as far as input.cpp depends on them.                      *)
(***************************************************************************)
ClampTo(v, lo, hi) == Min(Max(v, lo), hi)
\* The OS confines the clip rectangle to the screen.
ClampRect(rc) ==
    MkRect(ClampTo(rc.left, 0, ScreenMax), ClampTo(rc.top, 0, ScreenMax),
           ClampTo(rc.right, 0, ScreenMax), ClampTo(rc.bottom, 0, ScreenMax))
\* The OS keeps the cursor inside the clip rectangle.
ClampPoint(p, rc) ==
    [x |-> ClampTo(p.x, rc.left, rc.right), y |-> ClampTo(p.y, rc.top, rc.bottom)]
\* ::ClipCursor(&rect)
OsClipCursor(w, rc) ==
    [w EXCEPT !.os_clip = ClampRect(rc), !.os_pos = ClampPoint(w.os_pos, ClampRect(rc))]
\* ::SetCursorPos(x, y)
OsSetCursorPos(w, p) == [w EXCEPT !.os_pos = ClampPoint(p, w.os_clip)]
\* ::SetCursor(cursor): the previous cursor is the call's value (w.os_cursor).
OsSetCursor(w, cursor) == [w EXCEPT !.os_cursor = cursor]
\* ::ShowCursor(show): the new display count is the call's value.
OsShowCursor(w, show) == [w EXCEPT !.os_show = IF show THEN @ + 1 ELSE @ - 1]

IndexOfUsage(devices, device) ==
    LET hits == {i \in 1..Len(devices) : SameUsage(devices[i], device)}
    IN IF hits = {} THEN 0 ELSE CHOOSE i \in hits : TRUE
RemoveAt(devices, i) == [j \in 1..(Len(devices) - 1) |-> IF j < i THEN devices[j] ELSE devices[j + 1]]
\* ::RegisterRawInputDevices(&device, 1, size): one registration per usage;
\* RIDEV_REMOVE takes the usage's registration away.
OsRegisterRawInputDevices(w, device) ==
    LET i == IndexOfUsage(w.os_devices, device) IN
    IF device.dwFlags % 2 = RIDEV_REMOVE
    THEN IF i = 0 THEN w ELSE [w EXCEPT !.os_devices = RemoveAt(@, i)]
    ELSE IF i = 0 THEN [w EXCEPT !.os_devices = Append(@, device)]
         ELSE [w EXCEPT !.os_devices[i] = device]

(***************************************************************************)
(* hook_disabler.hpp (not among the sources): a HookDisabler raises the    *)
(* disable flag it is given for as long as it lives; its destructor runs   *)
(* on every way out of the scope, an exception included.                   *)
(***************************************************************************)
HookDisabler(w, flag) == [w EXCEPT !.disable[flag] = @ + 1]

\* Mutant: the flag is only lowered when the scope is left normally.
ReleaseHookDisabler_NormalOnly(w, flag) ==
    IF w.exc = "none" THEN [w EXCEPT !.disable[flag] = @ - 1] ELSE w

\* ~HookDisabler()
ReleaseHookDisabler(w, flag) == [w EXCEPT !.disable[flag] = @ - 1]

(***************************************************************************)
(* input.cpp, the hook handlers.  Each yields the world it leaves, whether *)
(* it marked the call handled, and the value it supplied for the call.     *)
(* A pointer argument is <<>> (null) or <<v>>.                             *)
(***************************************************************************)
Unhandled(w) == [w |-> w, handled |-> FALSE, retval |-> <<>>, hooked |-> TRUE]
Handled(w, retval) == [w |-> w, handled |-> TRUE, retval |-> <<retval>>, hooked |-> TRUE]

\* Mutant: the requested cursor is not recorded while the GUI is visible.
OnSetCursor_NoRecord(w, cursor) ==
    IF w.gui_visible THEN Handled(w, w.old_cursor.second)
    ELSE Unhandled([w EXCEPT !.old_cursor = [first |-> TRUE, second |-> cursor]])

OnSetCursor(w, cursor) ==
    LET old_cursor_raw == w.old_cursor.second
        w1 == [w EXCEPT !.old_cursor = [first |-> TRUE, second |-> cursor]]
    IN IF w.gui_visible THEN Handled(w1, old_cursor_raw) ELSE Unhandled(w1)

OnDirectInput(w) ==
    IF w.gui_visible THEN Handled(w, 0) ELSE Unhandled(w)

\* Mutant: the OS position of the moment is reported, not the saved one.
OnGetCursorPos_Fresh(w, point) ==
    IF w.gui_visible /\ point # <<>> THEN Handled(w, w.os_pos) ELSE Unhandled(w)

OnGetCursorPos(w, point) ==
    IF w.gui_visible /\ point # <<>>
    THEN Handled(w, w.old_cursor_pos.second)
    ELSE Unhandled(w)

OnSetCursorPos(w, x, y) ==
    IF w.gui_visible
    THEN Handled([w EXCEPT !.old_cursor_pos = [first |-> TRUE, second |-> [x |-> x, y |-> y]]], 1)
    ELSE Unhandled(w)

\* Mutant: a hide does not take the count below zero.
OnShowCursor_Floor(w, show) ==
    IF w.gui_visible
    THEN LET w1 == [w EXCEPT !.show_cursor_count = IF show THEN @ + 1 ELSE Max(@ - 1, 0)]
         IN Handled(w1, w1.show_cursor_count)
    ELSE Unhandled(w)

OnShowCursor(w, show) ==
    IF w.gui_visible
    THEN LET w1 == [w EXCEPT !.show_cursor_count = IF show THEN @ + 1 ELSE @ - 1]
         IN Handled(w1, w1.show_cursor_count)
    ELSE Unhandled(w)

OnClipCursor(w, rect) ==
    IF w.gui_visible /\ rect # <<>>
    THEN Handled([w EXCEPT !.old_clip_cursor = rect[1]], 1)
    ELSE Unhandled(w)

OnGetClipCursor(w, rect) ==
    IF w.gui_visible /\ rect # <<>>
    THEN Handled(w, w.old_clip_cursor)
    ELSE Unhandled(w)

\* retval = FALSE while the GUI is visible; the loop before it only traces.
OnRegisterRawInputDevices(w, raw_input_devices) ==
    IF raw_input_devices = <<>> THEN Unhandled(w)
    ELSE IF w.gui_visible THEN Handled(w, 0) ELSE Unhandled(w)

(***************************************************************************)
(* A call of a hooked API (cursor.cpp, raw_input.cpp: not among the        *)
(* sources), by the host or by input.cpp itself: with the API's disable    *)
(* flag raised the call goes straight to the real API; otherwise the       *)
(* handler runs, and the real API only if the handler did not mark the     *)
(* call handled.                                                           *)
(***************************************************************************)
Apis == {"SetCursor", "GetCursorPos", "SetCursorPos", "ShowCursor", "GetClipCursor",
         "ClipCursor", "RegisterRawInputDevices"}
NoGuards == [api \in Apis |-> 0]
Disabled(w, api) == w.disable[api] > 0
PassThrough(real_w, real_retval) ==
    [w |-> real_w, handled |-> FALSE, retval |-> <<real_retval>>, hooked |-> FALSE]
Detour(r, real_w, real_retval) ==
    IF r.handled THEN r
    ELSE [w |-> real_w, handled |-> FALSE, retval |-> <<real_retval>>, hooked |-> TRUE]

HostSetCursor(w, cursor) ==
    IF Disabled(w, "SetCursor") THEN PassThrough(OsSetCursor(w, cursor), w.os_cursor)
    ELSE LET r == OnSetCursor(w, cursor) IN Detour(r, OsSetCursor(r.w, cursor), w.os_cursor)
HostGetCursorPos(w, point) ==
    IF Disabled(w, "GetCursorPos") THEN PassThrough(w, w.os_pos)
    ELSE LET r == OnGetCursorPos(w, point) IN Detour(r, r.w, w.os_pos)
HostSetCursorPos(w, x, y) ==
    IF Disabled(w, "SetCursorPos") THEN PassThrough(OsSetCursorPos(w, [x |-> x, y |-> y]), 1)
    ELSE LET r == OnSetCursorPos(w, x, y)
         IN Detour(r, OsSetCursorPos(r.w, [x |-> x, y |-> y]), 1)
HostShowCursor(w, show) ==
    IF Disabled(w, "ShowCursor")
    THEN PassThrough(OsShowCursor(w, show), OsShowCursor(w, show).os_show)
    ELSE LET r == OnShowCursor(w, show) IN
         Detour(r, OsShowCursor(r.w, show), OsShowCursor(r.w, show).os_show)
\* ::ClipCursor(NULL) frees the cursor: the clip rectangle becomes the screen.
HostClipCursor(w, rect) ==
    LET rc == IF rect = <<>> THEN MkRect(0, 0, ScreenMax, ScreenMax) ELSE rect[1] IN
    IF Disabled(w, "ClipCursor") THEN PassThrough(OsClipCursor(w, rc), 1)
    ELSE LET r == OnClipCursor(w, rect) IN Detour(r, OsClipCursor(r.w, rc), 1)
HostGetClipCursor(w, rect) ==
    IF Disabled(w, "GetClipCursor") THEN PassThrough(w, w.os_clip)
    ELSE LET r == OnGetClipCursor(w, rect) IN Detour(r, r.w, w.os_clip)
HostRegisterRawInputDevices(w, raw_input_devices) ==
    LET real(v) == IF raw_input_devices = <<>> THEN v
                   ELSE OsRegisterRawInputDevices(v, raw_input_devices[1]) IN
    IF Disabled(w, "RegisterRawInputDevices") THEN PassThrough(real(w), 1)
    ELSE LET r == OnRegisterRawInputDevices(w, raw_input_devices)
         IN Detour(r, real(r.w), 1)

\* A call input.cpp itself makes to a hooked API: that a handler of this
\* module ran on it is noted in ops.
Own(r) == IF r.hooked THEN [r EXCEPT !.w = Did(@, "Intercepted")] ELSE r

(***************************************************************************)
(* input.cpp, the cursor, clip-rectangle and raw-input functions.          *)
(***************************************************************************)
SetOrRestoreCursor(w, visible) ==
    LET g == HookDisabler(w, "SetCursor")
        body ==
            IF visible
            THEN IF g.fail = "LoadCursorW" THEN Throw(g, "LoadCursorW")
                 ELSE LET r == Own(HostSetCursor(g, ArrowCursor))
                      IN [r.w EXCEPT !.old_cursor = [first |-> TRUE, second |-> r.retval[1]]]
            ELSE IF g.old_cursor.first
                 THEN LET r == Own(HostSetCursor(g, g.old_cursor.second))
                      IN [r.w EXCEPT !.old_cursor = [first |-> TRUE, second |-> r.retval[1]]]
                 ELSE [g EXCEPT !.old_cursor.first = TRUE]
    IN ReleaseHookDisabler(body, "SetCursor")

\* Mutant: the OS is asked for the position without the guard.
SaveCurrentCursorPos_NoGuard(w) ==
    IF w.fail = "GetCursorPos" THEN Throw(w, "GetCursorPos")
    ELSE LET r == Own(HostGetCursorPos(w, <<ZeroPoint>>))
         IN Did([r.w EXCEPT !.old_cursor_pos =
                                [first |-> TRUE, second |-> r.retval[1]]],
                "SaveCursorPos")

SaveCurrentCursorPos(w) ==
    LET g == HookDisabler(w, "GetCursorPos")
        body ==
            IF g.fail = "GetCursorPos" THEN Throw(g, "GetCursorPos")
            ELSE LET r == Own(HostGetCursorPos(g, <<ZeroPoint>>))
                 IN Did([r.w EXCEPT !.old_cursor_pos =
                                        [first |-> TRUE, second |-> r.retval[1]]],
                        "SaveCursorPos")
    IN ReleaseHookDisabler(body, "GetCursorPos")

ClearOldCursorPos(w) ==
    [w EXCEPT !.old_cursor_pos = [first |-> FALSE, second |-> ZeroPoint]]

RestoreOldCursorPos(w) ==
    IF ~w.old_cursor_pos.first THEN w
    ELSE LET g == HookDisabler(w, "SetCursorPos")
             body ==
                 IF g.fail = "SetCursorPos" THEN Throw(g, "SetCursorPos")
                 ELSE LET r == Own(HostSetCursorPos(g, g.old_cursor_pos.second.x,
                                                    g.old_cursor_pos.second.y))
                      IN ClearOldCursorPos(Did(r.w, "RestoreCursorPos"))
         IN ReleaseHookDisabler(body, "SetCursorPos")

\* do { ++show_cursor_count; } while (::ShowCursor(TRUE) < 0);
RECURSIVE ShowCursorLoop(_)
ShowCursorLoop(w) ==
    LET r == Own(HostShowCursor([w EXCEPT !.show_cursor_count = @ + 1], TRUE))
    IN IF r.retval[1] < 0 THEN ShowCursorLoop(r.w) ELSE r.w

ShowCursor(w) ==
    ReleaseHookDisabler(ShowCursorLoop(HookDisabler(w, "ShowCursor")), "ShowCursor")

\* while (show_cursor_count > 0) { --show_cursor_count; ::ShowCursor(FALSE); }
RECURSIVE HideCursorLoop(_)
HideCursorLoop(w) ==
    IF w.show_cursor_count > 0
    THEN HideCursorLoop(Own(HostShowCursor([w EXCEPT !.show_cursor_count = @ - 1],
                                           FALSE)).w)
    ELSE w

HideCursor(w) ==
    ReleaseHookDisabler(HideCursorLoop(HookDisabler(w, "ShowCursor")), "ShowCursor")

SaveCurrentClipCursor(w) ==
    LET g == HookDisabler(w, "GetClipCursor")
        body ==
            IF g.fail = "GetClipCursor" THEN Throw(g, "GetClipCursor")
            ELSE LET r == Own(HostGetClipCursor(g, <<ZeroRect>>))
                 IN Did([r.w EXCEPT !.old_clip_cursor = r.retval[1]], "SaveClip")
    IN ReleaseHookDisabler(body, "GetClipCursor")

ClipCursorWrap(w, clip_cursor) ==
    LET g == HookDisabler(w, "ClipCursor")
        body == IF g.fail = "ClipCursor" THEN Throw(g, "ClipCursor")
                ELSE Own(HostClipCursor(g, <<clip_cursor>>)).w
    IN ReleaseHookDisabler(body, "ClipCursor")

SetNewClipCursor(w) ==
    IF ~w.window.valid THEN w
    ELSE IF w.fail = "GetWindowRect" THEN Throw(w, "GetWindowRect")
    ELSE LET wr == w.window.rect
             oc == w.old_clip_cursor
         IN ClipCursorWrap(w, MkRect(Min(oc.left, wr.left), Min(oc.top, wr.top),
                                     Max(oc.right, wr.right), Max(oc.bottom, wr.bottom)))

\* Mutant: the saved rectangle is never put back.
RestoreOldClipCursor_NoClip(w) == Did(w, "RestoreClip")

RestoreOldClipCursor(w) ==
    LET w1 == ClipCursorWrap(w, w.old_clip_cursor)
    IN IF Ok(w1) THEN Did(w1, "RestoreClip") ELSE w1

\* A refused registration (also one a handler of this module answered with
\* FALSE) makes the wrapper throw.
RegisterRawInputDevicesWrapper(w, device) ==
    IF \/ IsMouse(device) /\ w.fail = "RegisterMouse"
       \/ IsKeyboard(device) /\ w.fail = "RegisterKeyboard"
    THEN Throw(w, w.fail)
    ELSE LET r == Own(HostRegisterRawInputDevices(w, <<device>>))
         IN IF r.retval[1] = 0 THEN Throw(r.w, "RegisterRawInputDevices") ELSE r.w

\* has_mouse_device, has_keyboard_device
DoesRawInputDeviceHaveMouseOrKeyboardDevice(devices) ==
    [has_mouse_device |-> \E i \in 1..Len(devices) : IsMouse(devices[i]),
     has_keyboard_device |-> \E i \in 1..Len(devices) : IsKeyboard(devices[i])]

SetRawInputDevices(w) ==
    LET g == HookDisabler(w, "RegisterRawInputDevices")
        w1 == Did([g EXCEPT !.old_devices = g.os_devices], "Snapshot")
        has == DoesRawInputDeviceHaveMouseOrKeyboardDevice(g.os_devices)
        w2 == IF has.has_mouse_device
              THEN RegisterRawInputDevicesWrapper(w1,
                       MkDevice(HID_USAGE_PAGE_GENERIC, HID_USAGE_GENERIC_MOUSE, 0,
                                g.window.hwnd))
              ELSE w1
        body ==
            IF Len(g.os_devices) = 0 THEN g
            ELSE IF g.fail = "GetRegisteredRawInputDevices"
            THEN Throw(g, "GetRegisteredRawInputDevices")
            ELSE IF ~has.has_mouse_device /\ ~has.has_keyboard_device THEN w1
            ELSE IF has.has_keyboard_device /\ Ok(w2)
            THEN RegisterRawInputDevicesWrapper(w2,
                     MkDevice(HID_USAGE_PAGE_GENERIC, HID_USAGE_GENERIC_KEYBOARD, 0,
                              g.window.hwnd))
            ELSE w2
    IN ReleaseHookDisabler(body, "RegisterRawInputDevices")

\* for (auto const& device : old_devices), from the i-th device on
RECURSIVE RestoreRawInputDevicesFrom(_, _)
RestoreRawInputDevicesFrom(w, i) ==
    IF i > Len(w.old_devices) \/ ~Ok(w) THEN w
    ELSE LET device == w.old_devices[i]
             w1 == RegisterRawInputDevicesWrapper(w, device)
         IN IF IsMouse(device) \/ IsKeyboard(device)
            THEN RestoreRawInputDevicesFrom(
                     IF Ok(w1) THEN Did(w1, "RestoreDevice") ELSE w1, i + 1)
            ELSE RestoreRawInputDevicesFrom(w, i + 1)

\* Mutant: the loop stops after the first device it registers.
RECURSIVE RestoreRawInputDevices_FirstOnlyFrom(_, _)
RestoreRawInputDevices_FirstOnlyFrom(w, i) ==
    IF i > Len(w.old_devices) THEN w
    ELSE IF IsMouse(w.old_devices[i]) \/ IsKeyboard(w.old_devices[i])
    THEN RegisterRawInputDevicesWrapper(w, w.old_devices[i])
    ELSE RestoreRawInputDevices_FirstOnlyFrom(w, i + 1)
RestoreRawInputDevices_FirstOnly(w) ==
    ReleaseHookDisabler(
        RestoreRawInputDevices_FirstOnlyFrom(HookDisabler(w, "RegisterRawInputDevices"), 1),
        "RegisterRawInputDevices")

RestoreRawInputDevices(w) ==
    ReleaseHookDisabler(
        RestoreRawInputDevicesFrom(HookDisabler(w, "RegisterRawInputDevices"), 1),
        "RegisterRawInputDevices")

\* The statements SetGuiVisibleForInput(visible, old_visible) executes, in order.
SetGuiVisibleForInputStatements(visible, old_visible) ==
    IF visible # old_visible
    THEN IF visible
         THEN <<"SetOrRestoreCursor", "SaveCurrentCursorPos", "ShowCursor",
                "SaveCurrentClipCursor", "SetNewClipCursor", "SetRawInputDevices">>
         ELSE <<"SetOrRestoreCursor", "RestoreOldCursorPos", "HideCursor",
                "RestoreOldClipCursor", "RestoreRawInputDevices">>
    ELSE IF visible
         THEN <<"ClearOldCursorPos", "SetNewClipCursor">>
         ELSE <<"ClearOldCursorPos">>

\* One statement of SetGuiVisibleForInput.
Statement(w, name, visible) ==
    CASE name = "SetOrRestoreCursor" -> SetOrRestoreCursor(w, visible)
      [] name = "SaveCurrentCursorPos" -> SaveCurrentCursorPos(w)
      [] name = "ShowCursor" -> ShowCursor(w)
      [] name = "SaveCurrentClipCursor" -> SaveCurrentClipCursor(w)
      [] name = "SetNewClipCursor" -> SetNewClipCursor(w)
      [] name = "SetRawInputDevices" -> SetRawInputDevices(w)
      [] name = "RestoreOldCursorPos" -> RestoreOldCursorPos(w)
      [] name = "HideCursor" -> HideCursor(w)
      [] name = "RestoreOldClipCursor" -> RestoreOldClipCursor(w)
      [] name = "RestoreRawInputDevices" -> RestoreRawInputDevices(w)
      [] name = "ClearOldCursorPos" -> ClearOldCursorPos(w)

\* SetGuiVisibleForInput from its i-th statement on; an exception ends it.
RECURSIVE SetGuiVisibleForInputFrom(_, _, _, _)
SetGuiVisibleForInputFrom(w, visible, old_visible, i) ==
    LET stmts == SetGuiVisibleForInputStatements(visible, old_visible)
    IN IF i > Len(stmts) \/ ~Ok(w) THEN w
       ELSE SetGuiVisibleForInputFrom(Statement(w, stmts[i], visible),
                                      visible, old_visible, i + 1)

SetGuiVisibleForInput(w, visible, old_visible) ==
    SetGuiVisibleForInputFrom(w, visible, old_visible, 1)

\* render.cpp (not among the sources): the flag is set, then the input tasks run.
SetGuiVisible(w, visible, old_visible) ==
    SetGuiVisibleForInput([w EXCEPT !.gui_visible = visible], visible, old_visible)

(***************************************************************************)
(* History.                                                                *)
(***************************************************************************)
NoCall == [op |-> "none", visible |-> FALSE, old_visible |-> FALSE, exc |-> "none",
           handled |-> FALSE, retval |-> <<>>, arg |-> <<>>, ops |-> <<>>]
OsSnapshot(ok) ==
    [os_clip |-> os_clip, os_pos |-> os_pos, os_devices |-> os_devices,
     os_show |-> os_show, os_cursor |-> os_cursor, ok |-> ok]

\* SetGuiVisible(visible, old_visible) was called and left world w.
NoteTransition(w, visible, old_visible) ==
    /\ last' = [NoCall EXCEPT !.op = "SetGuiVisible", !.visible = visible,
                              !.old_visible = old_visible, !.exc = w.exc, !.ops = w.ops]
    /\ before' = IF visible /\ ~old_visible THEN OsSnapshot(w.exc = "none") ELSE before
    /\ since' = IF visible /\ ~old_visible THEN {}
                ELSE since \cup {IF visible = old_visible THEN "Refresh" ELSE "TurnOff"}

\* The host called the hooked API `op` with `arg`; r is what the detour yielded.
NoteHook(op, arg, r) ==
    /\ last' = [NoCall EXCEPT !.op = op, !.arg = arg, !.handled = r.handled,
                              !.retval = r.retval]
    /\ since' = IF r.w = World("none") THEN since ELSE since \cup {op}
    /\ UNCHANGED before

(***************************************************************************)
(* Actions of the cursor state machine.                                    *)
(***************************************************************************)
\* The counters stay within the model's bounds.
InBounds(w) ==
    /\ w.show_cursor_count \in (0 - MaxShow)..MaxShow
    /\ w.os_show \in (0 - MaxShow)..MaxShow

\* The overlay is shown or hidden (the flag flips), the OS call `fail` failing.
Toggle(fail) ==
    LET w == SetGuiVisible(World(fail), ~gui_visible, gui_visible)
    IN InBounds(w) /\ Commit(w) /\ NoteTransition(w, ~gui_visible, gui_visible)
       /\ UNCHANGED queueVars

\* A call that is no transition: SetGuiVisible(v, v) with v the current flag.
Refresh(fail) ==
    LET w == SetGuiVisible(World(fail), gui_visible, gui_visible)
    IN InBounds(w) /\ Commit(w) /\ NoteTransition(w, gui_visible, gui_visible)
       /\ UNCHANGED queueVars

CallClipCursor(rect) ==
    LET r == HostClipCursor(World("none"), rect)
    IN Commit(r.w) /\ NoteHook("ClipCursor", rect, r)
       /\ UNCHANGED queueVars

CallGetClipCursor(rect) ==
    LET r == HostGetClipCursor(World("none"), rect)
    IN Commit(r.w) /\ NoteHook("GetClipCursor", rect, r)
       /\ UNCHANGED queueVars

CallGetCursorPos(point) ==
    LET r == HostGetCursorPos(World("none"), point)
    IN Commit(r.w) /\ NoteHook("GetCursorPos", point, r)
       /\ UNCHANGED queueVars

CallSetCursorPos(x, y) ==
    LET r == HostSetCursorPos(World("none"), x, y)
    IN Commit(r.w) /\ NoteHook("SetCursorPos", <<x, y>>, r)
       /\ UNCHANGED queueVars

CallSetCursor(cursor) ==
    LET r == HostSetCursor(World("none"), cursor)
    IN Commit(r.w) /\ NoteHook("SetCursor", <<cursor>>, r)
       /\ UNCHANGED queueVars

CallShowCursor(show) ==
    LET r == HostShowCursor(World("none"), show)
    IN /\ InBounds(r.w)
       /\ Commit(r.w) /\ NoteHook("ShowCursor", <<show>>, r)
       /\ UNCHANGED queueVars

\* The user moves the mouse: the OS cursor goes to p, inside the clip rectangle.
OsMoveCursor(p) ==
    /\ p # os_pos
    /\ p = ClampPoint(p, os_clip)
    /\ os_pos' = p
    /\ UNCHANGED <<cursorVars, os_cursor, os_clip, os_show, os_devices, window, queueVars, histVars>>

CallRegisterRawInputDevices(raw_input_devices) ==
    LET r == HostRegisterRawInputDevices(World("none"), raw_input_devices)
    IN /\ Len(r.w.os_devices) <= MaxDevices
       /\ Commit(r.w) /\ NoteHook("RegisterRawInputDevices", raw_input_devices, r)
       /\ UNCHANGED queueVars

\* The host's window moves, is resized, is destroyed or is created.
WindowChanges(wnd) ==
    /\ wnd # window
    /\ window' = wnd
    /\ UNCHANGED <<cursorVars, os_cursor, os_pos, os_clip, os_show, os_devices, queueVars, histVars>>

(***************************************************************************)
(* The deferred queue: WindowProcCallback pushes, HandleInputQueue drains. *)
(***************************************************************************)

\* The OS: AttachThreadInput(from, to, attach) on the attachments `att`.  It
\* fails for a thread that has exited, and a detach fails without an attachment.
OsAttachThreadInput(att, from, to, attach) ==
    IF to \notin alive \/ from = to \/ (~attach /\ <<from, to>> \notin att)
    THEN [ok |-> FALSE, attached |-> att]
    ELSE [ok |-> TRUE,
          attached |-> IF attach THEN att \cup {<<from, to>>} ELSE att \ {<<from, to>>}]

\* WndProcInputMsg's constructor: the entry, or the exception of a failed OpenThread.
WndProcInputMsg(hwnd, msg, wparam, lparam, tid, fail) ==
    IF fail = "OpenThread"
    THEN [exc |-> "OpenThread", entry |-> <<>>]
    ELSE [exc |-> "none",
          entry |-> <<[hwnd_ |-> hwnd, msg_ |-> msg, wparam_ |-> wparam,
                       lparam_ |-> lparam, tid_ |-> tid, thread_ |-> tid]>>]

\* Mutant: the entry goes to the front of the queue.
QueuePush_Front(q, m) == <<m>> \o q

\* Mutant: a hotkey message takes the place of what is queued.
QueuePush_HotkeyClears(q, m) ==
    IF m.msg_ = WM_KEYDOWN /\ m.wparam_ = VK_F9 THEN <<m>> ELSE Append(q, m)

\* queue.push(...)
QueuePush(q, m) == Append(q, m)

\* What the subscribers are called with for a queue entry (callbacks.Run).
EntryTuple(m) == <<m.hwnd_, m.msg_, m.wparam_, m.lparam_>>
CallTuple(c) == <<c.hwnd, c.msg, c.wparam, c.lparam>>

\* The hotkey test of WindowProcCallback; c.shift is the high bit of
\* GetAsyncKeyState(VK_SHIFT).
IsToggleHotkey(c) ==
    /\ c.msg = WM_KEYDOWN
    /\ (c.lparam \div (2^30)) % 2 = 0
    /\ c.wparam = VK_F9
    /\ c.shift

\* blocked_msg of WindowProcCallback
IsBlockedMsg(msg) ==
    \/ msg = WM_INPUT
    \/ (msg >= WM_KEYFIRST /\ msg <= WM_KEYLAST)
    \/ (msg >= WM_MOUSEFIRST /\ msg <= WM_MOUSELAST)

\* ToggleGuiVisible()
ToggleGuiVisible(w) == SetGuiVisible(w, ~w.gui_visible, w.gui_visible)

\* LazyAttachThreadInput(tid) on thread current_tid.  s holds the thread's two
\* thread-locals and the OS's attachments.
LazyAttachThreadInput(s, current_tid, tid, fail) ==
    IF current_tid # tid /\ s.last_attached_tid # tid
    THEN LET det == OsAttachThreadInput(s.attached, current_tid, s.last_attached_tid, FALSE)
             s1 == IF s.last_attached_tid = NoThread THEN s
                   ELSE IF ~det.ok THEN [s EXCEPT !.exc = "AttachThreadInput"]
                   ELSE [s EXCEPT !.attached = det.attached,
                                  !.last_attached_tid = NoThread,
                                  !.last_attached_thread = NoThread]
             att == OsAttachThreadInput(s1.attached, current_tid, tid, TRUE)
         IN IF s1.exc # "none" THEN s1
            ELSE IF ~att.ok \/ fail = "AttachThreadInput"
            THEN [s1 EXCEPT !.exc = "AttachThreadInput"]
            ELSE IF fail = "OpenThread"
            THEN [s1 EXCEPT !.attached = att.attached, !.last_attached_tid = tid,
                            !.exc = "OpenThread"]
            ELSE [s1 EXCEPT !.attached = att.attached, !.last_attached_tid = tid,
                            !.last_attached_thread = tid]
    ELSE s

Unlocked == [owner |-> NoThread, count |-> 0]
Lockable(t) == mutex.owner \in {NoThread, t}
Lock(t) == [owner |-> t, count |-> mutex.count + 1]
Unlock(t) == IF mutex.count = 1 THEN Unlocked ELSE [mutex EXCEPT !.count = @ - 1]

\* Thread t is called with window message c and comes to the queue's lock.
WndProcEnter(t, c) ==
    /\ t \in alive /\ pc[t] = "idle"
    /\ Len(called) + Cardinality({u \in Threads : pc[u] \in {"lock", "nested"}}) < MaxPush
    /\ pc' = [pc EXCEPT ![t] = "lock"]
    /\ call' = [call EXCEPT ![t] = <<c>>]
    /\ UNCHANGED <<cursorVars, osVars, queue, mutex, last_attached_tid,
                   last_attached_thread, attached, alive, delivered, pushed,
                   called, histVars>>

\* WindowProcCallback on thread t, from taking the lock to its return.
WindowProcCallback(t, fail) ==
    /\ pc[t] = "lock" /\ Lockable(t)
    /\ LET c == call[t][1]
           m == WndProcInputMsg(c.hwnd, c.msg, c.wparam, c.lparam, t, fail)
           toggle == m.exc = "none" /\ IsToggleHotkey(c)
           w == IF toggle THEN ToggleGuiVisible(World("none")) ELSE World("none")
           handled == /\ m.exc = "none" /\ w.exc = "none"
                      /\ (toggle \/ (gui_visible /\ IsBlockedMsg(c.msg)))
       IN /\ InBounds(w)
          /\ Commit(w)
          /\ queue' = IF m.exc = "none" THEN QueuePush(queue, m.entry[1]) ELSE queue
          /\ pushed' = IF m.exc = "none" THEN Append(pushed, CallTuple(c)) ELSE pushed
          /\ called' = Append(called, CallTuple(c))
          /\ last' = [NoCall EXCEPT !.op = "WindowProcCallback", !.arg = c,
                                    !.visible = w.gui_visible,
                                    !.old_visible = gui_visible,
                                    !.exc = IF m.exc # "none" THEN m.exc ELSE w.exc,
                                    !.handled = handled, !.ops = w.ops]
          /\ before' = IF toggle /\ ~gui_visible THEN OsSnapshot(w.exc = "none")
                       ELSE before
          /\ since' = IF ~toggle THEN since
                      ELSE IF ~gui_visible THEN {} ELSE since \cup {"TurnOff"}
    /\ pc' = [pc EXCEPT ![t] = "idle"]
    /\ call' = [call EXCEPT ![t] = <<>>]
    /\ UNCHANGED <<mutex, last_attached_tid, last_attached_thread, attached, alive,
                   delivered>>

NoteDrain(exc) ==
    /\ last' = [NoCall EXCEPT !.op = "HandleInputQueue", !.exc = exc]
    /\ UNCHANGED <<before, since>>

\* HandleInputQueue on thread d takes the lock and tests the queue.
HandleInputQueueBegin(d) ==
    /\ d \in alive /\ pc[d] = "idle" /\ Lockable(d)
    /\ IF queue = <<>>
       THEN NoteDrain("none") /\ UNCHANGED <<mutex, pc>>
       ELSE /\ mutex' = Lock(d)
            /\ pc' = [pc EXCEPT ![d] = "attach"]
            /\ UNCHANGED histVars
    /\ UNCHANGED <<cursorVars, osVars, queue, call, last_attached_tid,
                   last_attached_thread, attached, alive, delivered, pushed, called>>

\* The two guards every iteration of the drain's loop holds.
DrainGuards(w) == HookDisabler(HookDisabler(w, "SetCursor"), "GetCursorPos")
ReleaseDrainGuards(w) ==
    ReleaseHookDisabler(ReleaseHookDisabler(w, "GetCursorPos"), "SetCursor")

\* What the subscribers of the queue-entry callbacks may do to this module.
Subscribers == {"none", "toggle"}

\* ... raises the iteration's guards and attaches to the thread of the front
\* entry; an exception leaves the function through the guards and the
\* lock_guard.
HandleInputQueueAttach(d, fail) ==
    /\ pc[d] = "attach"
    /\ LET g == DrainGuards(World("none"))
           s == LazyAttachThreadInput(
                    [last_attached_tid |-> last_attached_tid[d],
                     last_attached_thread |-> last_attached_thread[d],
                     attached |-> attached, exc |-> "none"],
                    d, Head(queue).tid_, fail)
       IN /\ last_attached_tid' = [last_attached_tid EXCEPT ![d] = s.last_attached_tid]
          /\ last_attached_thread' =
                 [last_attached_thread EXCEPT ![d] = s.last_attached_thread]
          /\ attached' = s.attached
          /\ IF s.exc # "none"
             THEN /\ Commit(ReleaseDrainGuards([g EXCEPT !.exc = s.exc]))
                  /\ mutex' = Unlock(d)
                  /\ pc' = [pc EXCEPT ![d] = "idle"]
                  /\ NoteDrain(s.exc)
             ELSE /\ Commit(g)
                  /\ pc' = [pc EXCEPT ![d] = "run"]
                  /\ UNCHANGED <<mutex, histVars>>
    /\ UNCHANGED <<queue, call, alive, delivered, pushed, called>>

\* ... runs the subscribers on the front entry, pops it, lowers the
\* iteration's guards and tests the queue.  A subscriber may toggle the
\* overlay; an exception of a subscriber leaves the function before the pop
\* (delivered records the entries whose broadcast returned).
HandleInputQueueRun(d, sub, fail) ==
    /\ pc[d] = "run"
    /\ sub = "none" => fail = "none"
    /\ LET r == IF sub = "toggle" THEN ToggleGuiVisible(World(fail)) ELSE World("none")
           w == ReleaseDrainGuards(r)
       IN /\ InBounds(w)
          /\ Commit(w)
          /\ delivered' = IF Ok(r) THEN Append(delivered, EntryTuple(Head(queue)))
                          ELSE delivered
          /\ queue' = IF Ok(r) THEN Tail(queue) ELSE queue
          /\ IF ~Ok(r) \/ Tail(queue) = <<>>
             THEN /\ mutex' = Unlock(d)
                  /\ pc' = [pc EXCEPT ![d] = "idle"]
                  /\ last' = [NoCall EXCEPT !.op = "HandleInputQueue", !.exc = r.exc,
                                            !.ops = r.ops]
             ELSE /\ pc' = [pc EXCEPT ![d] = "attach"]
                  /\ UNCHANGED mutex
                  /\ last' = IF sub # "toggle" THEN last
                             ELSE [NoCall EXCEPT !.op = "SetGuiVisible",
                                                 !.visible = ~gui_visible,
                                                 !.old_visible = gui_visible,
                                                 !.exc = r.exc, !.ops = r.ops]
          /\ before' = IF sub = "toggle" /\ ~gui_visible THEN OsSnapshot(Ok(r))
                       ELSE before
          /\ since' = IF sub # "toggle" THEN since
                      ELSE IF ~gui_visible THEN {} ELSE since \cup {"TurnOff"}
    /\ UNCHANGED <<call, last_attached_tid, last_attached_thread, attached, alive,
                   pushed, called>>

\* A subscriber, called by the drain on thread d with the front entry, calls
\* WindowProcCallback with window message c and comes to the queue's lock.
SubscriberPushes(d, c) ==
    /\ pc[d] = "run"
    /\ Len(called) + Cardinality({u \in Threads : pc[u] \in {"lock", "nested"}}) < MaxPush
    /\ pc' = [pc EXCEPT ![d] = "nested"]
    /\ call' = [call EXCEPT ![d] = <<c>>]
    /\ UNCHANGED <<cursorVars, osVars, queue, mutex, last_attached_tid,
                   last_attached_thread, attached, alive, delivered, pushed,
                   called, histVars>>

\* The nested call's effects: m is the entry constructed (or the exception
\* of its constructor), toggle whether the hotkey toggled, exc the exception
\* leaving the call, w the state it leaves.
NestedWindowProcCallbackEnd(d, c, m, toggle, exc, w) ==
    /\ InBounds(w)
    /\ Commit(w)
    /\ queue' = IF m.exc = "none" THEN QueuePush(queue, m.entry[1]) ELSE queue
    /\ pushed' = IF m.exc = "none" THEN Append(pushed, CallTuple(c)) ELSE pushed
    /\ called' = Append(called, CallTuple(c))
    /\ IF exc = "none"
       THEN /\ pc' = [pc EXCEPT ![d] = "run"]
            /\ UNCHANGED mutex
            /\ last' = [NoCall EXCEPT !.op = "WindowProcCallback", !.arg = c,
                                      !.visible = w.gui_visible,
                                      !.old_visible = gui_visible,
                                      !.handled = toggle \/ (gui_visible /\ IsBlockedMsg(c.msg)),
                                      !.ops = w.ops]
       ELSE /\ pc' = [pc EXCEPT ![d] = "idle"]
            /\ mutex' = Unlock(d)
            /\ last' = [NoCall EXCEPT !.op = "HandleInputQueue", !.exc = exc,
                                      !.ops = w.ops]
    /\ before' = IF toggle /\ ~gui_visible THEN OsSnapshot(exc = "none") ELSE before
    /\ since' = IF ~toggle THEN since
                ELSE IF ~gui_visible THEN {} ELSE since \cup {"TurnOff"}

\* An exception passing through the drain's loop body lowers its guards.
ThroughDrainGuards(w) == IF Ok(w) THEN w ELSE ReleaseDrainGuards(w)

\* ... WindowProcCallback inside the drain, from taking the lock (again) to
\* its return to the subscriber; an exception leaves the subscriber and the
\* drain, through the iteration's guards and the lock_guard.
NestedWindowProcCallback(d, fail) ==
    /\ pc[d] = "nested" /\ Lockable(d)
    /\ LET c == call[d][1]
           m == WndProcInputMsg(c.hwnd, c.msg, c.wparam, c.lparam, d, fail)
       IN IF m.exc # "none"
          THEN NestedWindowProcCallbackEnd(d, c, m, FALSE, m.exc,
                   ThroughDrainGuards([World("none") EXCEPT !.exc = m.exc]))
          ELSE IF IsToggleHotkey(c)
          THEN \E w \in {ThroughDrainGuards(ToggleGuiVisible(World("none")))} :
                   NestedWindowProcCallbackEnd(d, c, m, TRUE, w.exc, w)
          ELSE NestedWindowProcCallbackEnd(d, c, m, FALSE, "none", World("none"))
    /\ call' = [call EXCEPT ![d] = <<>>]
    /\ UNCHANGED <<last_attached_tid, last_attached_thread, attached, alive, delivered>>

\* A host thread exits; the OS drops its input attachments.
ThreadExits(t) ==
    /\ t \in alive /\ pc[t] = "idle"
    /\ alive' = alive \ {t}
    /\ attached' = {a \in attached : a[1] # t /\ a[2] # t}
    /\ UNCHANGED <<cursorVars, osVars, queue, mutex, pc, call, last_attached_tid,
                   last_attached_thread, delivered, pushed, called, histVars>>

\* SetGuiVisible(~visible, visible) begins on thread t: the flag is written.
SetGuiVisibleBegin(t) ==
    /\ t \in alive /\ pc[t] = "idle"
    /\ gui_visible' = ~gui_visible
    /\ pc' = [pc EXCEPT ![t] = "transition"]
    /\ call' = [call EXCEPT ![t] = <<[visible |-> ~gui_visible,
                                      old_visible |-> gui_visible,
                                      i |-> 1, ops |-> <<>>]>>]
    /\ last' = [NoCall EXCEPT !.op = "SetGuiVisible", !.visible = ~gui_visible,
                              !.old_visible = gui_visible, !.exc = "running"]
    /\ before' = IF ~gui_visible THEN OsSnapshot(TRUE) ELSE before
    /\ since' = IF ~gui_visible THEN {} ELSE since
    /\ UNCHANGED <<old_cursor, old_cursor_pos, old_clip_cursor, show_cursor_count,
                   old_devices, disable, osVars, queue, mutex, last_attached_tid,
                   last_attached_thread, attached, alive, delivered, pushed, called>>

\* ... and thread t executes the next statement of SetGuiVisibleForInput.
SetGuiVisibleStep(t, fail) ==
    /\ pc[t] = "transition"
    /\ LET c == call[t][1]
           stmts == SetGuiVisibleForInputStatements(c.visible, c.old_visible)
           w == Statement([World(fail) EXCEPT !.ops = c.ops], stmts[c.i], c.visible)
           done == c.i = Len(stmts) \/ ~Ok(w)
       IN /\ InBounds(w)
          /\ Commit(w)
          /\ pc' = [pc EXCEPT ![t] = IF done THEN "idle" ELSE "transition"]
          /\ call' = [call EXCEPT ![t] =
                        IF done THEN <<>>
                        ELSE <<[c EXCEPT !.i = @ + 1, !.ops = w.ops]>>]
          /\ IF done
             THEN /\ last' = [NoCall EXCEPT !.op = "SetGuiVisible",
                                            !.visible = c.visible,
                                            !.old_visible = c.old_visible,
                                            !.exc = w.exc, !.ops = w.ops]
                  /\ before' = IF c.visible THEN [before EXCEPT !.ok = Ok(w)] ELSE before
                  /\ since' = IF c.visible THEN since ELSE since \cup {"TurnOff"}
             ELSE UNCHANGED histVars
    /\ UNCHANGED <<queue, mutex, last_attached_tid, last_attached_thread, attached,
                   alive, delivered, pushed, called>>

InitWith(clip, pos, cursor, show, devices, wnd) ==
    /\ gui_visible = FALSE
    /\ old_cursor = [first |-> FALSE, second |-> NullCursor]
    /\ old_cursor_pos = [first |-> FALSE, second |-> ZeroPoint]
    /\ old_clip_cursor = ZeroRect
    /\ show_cursor_count = 0
    /\ old_devices = <<>>
    /\ disable = NoGuards
    /\ os_cursor = cursor
    /\ os_pos = pos
    /\ os_clip = clip
    /\ os_show = show
    /\ os_devices = devices
    /\ window = wnd
    /\ queue = <<>>
    /\ mutex = [owner |-> NoThread, count |-> 0]
    /\ pc = [t \in Threads |-> "idle"]
    /\ call = [t \in Threads |-> <<>>]
    /\ last_attached_tid = [t \in Threads |-> NoThread]
    /\ last_attached_thread = [t \in Threads |-> NoThread]
    /\ attached = {}
    /\ alive = Threads
    /\ delivered = <<>>
    /\ pushed = <<>>
    /\ called = <<>>
    /\ last = NoCall
    /\ before = [os_clip |-> clip, os_pos |-> pos, os_devices |-> devices,
                 os_show |-> show, os_cursor |-> cursor, ok |-> FALSE]
    /\ since = {}

TopLeft(rc) == [x |-> rc.left, y |-> rc.top]

(***************************************************************************)
(* SpecClip: the clip rectangle.  Any clip rectangle and any window; the   *)
(* overlay is toggled and refreshed, the host sets and queries the clip    *)
(* rectangle, the window changes.                                          *)
(***************************************************************************)
ClipFails == {"none", "GetCursorPos", "ClipCursor"}
HostRectArgs == {<<>>, <<MkRect(0, 0, 1, ScreenMax)>>}

InitClip ==
    \E clip \in ScreenRects : \E wnd \in Windows :
        InitWith(clip, TopLeft(clip), ArrowCursor, 0, <<>>, wnd)

NextClip ==
    \/ \E fail \in ClipFails : Toggle(fail)
    \/ \E rect \in HostRectArgs : CallClipCursor(rect)
    \/ \E rect \in {<<>>, <<ZeroRect>>} : CallGetClipCursor(rect)

SpecClip == InitClip /\ [][NextClip]_vars

(***************************************************************************)
(* C1  Clip-rectangle round trip: when SetGuiVisibleForInput(true, false)  *)
(* is followed by SetGuiVisibleForInput(false, true), both returning, the  *)
(* OS clip rectangle is again the one in force before the first call, for  *)
(* every clip rectangle and every window, valid or not.                    *)
(***************************************************************************)
TurnedOffRightAfterTurnOn ==
    /\ last.op = "SetGuiVisible" /\ ~last.visible /\ last.old_visible
    /\ last.exc = "none"
    /\ before.ok
    /\ since = {"TurnOff"}

C1_ClipRoundTrip == TurnedOffRightAfterTurnOn => os_clip = before.os_clip

\* The case with a valid window whose rectangle widened the clip rectangle.
C1_Witness ==
    /\ TurnedOffRightAfterTurnOn
    /\ window.valid
    /\ window.rect.left < before.os_clip.left
    /\ os_clip = before.os_clip


Screen == MkRect(0, 0, ScreenMax, ScreenMax)

(***************************************************************************)
(* SpecPos: the cursor position.  The user moves the mouse at any time;    *)
(* the overlay is toggled and refreshed; the host queries and sets the     *)
(* cursor position.                                                        *)
(***************************************************************************)
PosFails == {"none", "GetCursorPos", "SetCursorPos"}

\* Cursor positions of the model: the corner POINT{} and the screen's diagonal.
Positions == {ZeroPoint} \cup {[x |-> i, y |-> ScreenMax - i] : i \in Coord}

InitPos ==
    \E pos \in Positions :
        InitWith(Screen, pos, ArrowCursor, 0,
                 <<MkDevice(HID_USAGE_PAGE_GENERIC, HID_USAGE_GENERIC_MOUSE, 0, NullWindow)>>,
                 HostWindowAt(Screen))

NextPos ==
    \/ \E fail \in PosFails : Toggle(fail)
    \/ \E fail \in PosFails : Refresh(fail)
    \/ \E p \in Positions : OsMoveCursor(p)
    \/ \E point \in {<<>>, <<ZeroPoint>>} : CallGetCursorPos(point)
    \/ \E p \in Positions : CallSetCursorPos(p.x, p.y)

SpecPos == InitPos /\ [][NextPos]_vars

(***************************************************************************)
(* C2  After SetGuiVisibleForInput(true, false), made with the overlay     *)
(* hidden, has returned, every OnGetCursorPos call with a non-null point   *)
(* is marked handled and yields the position saved by that transition,     *)
(* however the user moved the mouse since.                                 *)
(***************************************************************************)
GetCursorPosAfterTurnOn ==
    /\ last.op = "GetCursorPos" /\ last.arg # <<>>
    /\ gui_visible /\ before.ok
    /\ since = {}

C2_SavedPosReturned ==
    GetCursorPosAfterTurnOn => last.handled /\ last.retval = <<before.os_pos>>

\* The mouse has moved since the turn-on, and the saved position is what is returned.
C2_Witness ==
    /\ GetCursorPosAfterTurnOn
    /\ os_pos # before.os_pos
    /\ last.handled /\ last.retval = <<before.os_pos>>


(***************************************************************************)
(* SpecRaw: the raw-input devices.  Any registered device list; the        *)
(* overlay is toggled, the host registers and removes devices.             *)
(***************************************************************************)
RawFails == {"none", "RegisterKeyboard"}
HostRegisterArgs ==
    {<<>>,
     <<MkDevice(HID_USAGE_PAGE_GENERIC, HID_USAGE_GENERIC_MOUSE, RIDEV_REMOVE, NullWindow)>>,
     <<MkDevice(HID_USAGE_PAGE_GENERIC, HID_USAGE_GENERIC_MOUSE, 0, OtherWindow)>>}

InitRaw ==
    \E devices \in DeviceLists :
        InitWith(Screen, ZeroPoint, ArrowCursor, 0, devices,
                 HostWindowAt(Screen))

NextRaw ==
    \/ \E fail \in RawFails : Toggle(fail)
    \/ \E raw_input_devices \in HostRegisterArgs :
           CallRegisterRawInputDevices(raw_input_devices)

SpecRaw == InitRaw /\ [][NextRaw]_vars

(***************************************************************************)
(* C4  Raw-input round trip: when the turn-on found devices registered     *)
(* and both it and the turn-off returned, the registered device list is    *)
(* again, record for record, the list from before the turn-on; a device    *)
(* that is neither mouse nor keyboard is skipped by the restore and        *)
(* fails nothing.                                                          *)
(***************************************************************************)
TurnedOffAfterTurnOn ==
    /\ last.op = "SetGuiVisible" /\ ~last.visible /\ last.old_visible
    /\ last.exc = "none"
    /\ before.ok

C4_RawInputRoundTrip ==
    TurnedOffAfterTurnOn /\ before.os_devices # <<>> => os_devices = before.os_devices

\* The claim's list: a mouse, a keyboard and an unrecognized device, the first
\* two registered with flags and a target of the host's own.
C4_Witness ==
    /\ TurnedOffAfterTurnOn
    /\ Len(before.os_devices) = 3
    /\ \E i \in 1..3 : IsMouse(before.os_devices[i])
                        /\ before.os_devices[i].dwFlags = RIDEV_NOLEGACY
    /\ \E i \in 1..3 : IsKeyboard(before.os_devices[i])
                        /\ before.os_devices[i].hwndTarget = OtherWindow
    /\ \E i \in 1..3 : ~IsMouse(before.os_devices[i]) /\ ~IsKeyboard(before.os_devices[i])
    /\ Len(SelectSeq(last.ops, LAMBDA op : op = "RestoreDevice")) = 2
    /\ os_devices = before.os_devices


(***************************************************************************)
(* C5  Every transition into overlay-owns-input that returns has saved     *)
(* the cursor position, saved the clip rectangle and taken the raw-input   *)
(* snapshot exactly once each, and every transition back that returns has  *)
(* restored the cursor position and the clip rectangle exactly once and    *)
(* each saved mouse or keyboard registration exactly once, whatever        *)
(* no-transition calls and hook calls came in between.                     *)
(***************************************************************************)
Count(ops, op) == Len(SelectSeq(ops, LAMBDA o : o = op))
MouseOrKeyboard(devices) ==
    Len(SelectSeq(devices, LAMBDA device : IsMouse(device) \/ IsKeyboard(device)))

C5_ExactlyOnce ==
    /\ (last.op = "SetGuiVisible" /\ last.visible /\ ~last.old_visible /\ last.exc = "none")
          => /\ Count(last.ops, "SaveCursorPos") = 1
             /\ Count(last.ops, "SaveClip") = 1
             /\ Count(last.ops, "Snapshot") = 1
    /\ TurnedOffAfterTurnOn
          => /\ Count(last.ops, "RestoreCursorPos") = 1
             /\ Count(last.ops, "RestoreClip") = 1
             /\ Count(last.ops, "RestoreDevice") = MouseOrKeyboard(before.os_devices)

(***************************************************************************)
(* Specification SpecQueue: host threads and the frame thread push window  *)
(* messages while the frame thread drains the queue.                       *)
(***************************************************************************)

MouseMove == [hwnd |-> HostWindow, msg |-> WM_MOUSEMOVE, wparam |-> 0, lparam |-> 1,
              shift |-> FALSE]
KeyDown(vk, repeat, shift) ==
    [hwnd |-> HostWindow, msg |-> WM_KEYDOWN, wparam |-> vk,
     lparam |-> IF repeat THEN 2^30 ELSE 0, shift |-> shift]
Resize == [hwnd |-> HostWindow, msg |-> WM_SIZE, wparam |-> 0, lparam |-> 2,
           shift |-> FALSE]

QueueCalls == {MouseMove, Resize, KeyDown(VK_F8, FALSE, FALSE)}
QueueFails == {"none", "OpenThread"}

InitQueue ==
    InitWith(Screen, ZeroPoint, ArrowCursor, 0, <<>>, HostWindowAt(Screen))

NextQueue ==
    \/ \E t \in Threads, c \in QueueCalls : WndProcEnter(t, c)
    \/ \E t \in Threads, fail \in QueueFails : WindowProcCallback(t, fail)
    \/ HandleInputQueueBegin(FrameThread)
    \/ HandleInputQueueAttach(FrameThread, "none")
    \/ HandleInputQueueRun(FrameThread, "none", "none")
    \/ \E t \in HostThreads : ThreadExits(t)

SpecQueue == InitQueue /\ [][NextQueue]_vars

Tuples(q) == [i \in 1..Len(q) |-> EntryTuple(q[i])]

\* C3: every entry WindowProcCallback pushed is either still queued or was
\* broadcast exactly once with the tuple pushed, in push order (so each
\* producer's entries come in that producer's order), whatever the
\* interleaving; and a drain that returns normally has broadcast them all.
C3_ExactlyOnceInOrder ==
    /\ delivered \o Tuples(queue) = pushed
    /\ (last.op = "HandleInputQueue" /\ last.exc = "none") => delivered = pushed

C3_Witness ==
    /\ Len(delivered) = 1 /\ Len(queue) = 2
    /\ queue[1].tid_ # queue[2].tid_
    /\ EntryTuple(queue[1]) # EntryTuple(queue[2])
    /\ delivered[1] # EntryTuple(queue[1])

\* C7: no producer ever waits for the queue's lock while HandleInputQueue
\* holds it across LazyAttachThreadInput or the subscribers' callbacks.
C7_ProducerNeverBlocked ==
    ~ \E t \in Threads :
          /\ pc[t] = "lock"
          /\ mutex.owner = FrameThread /\ t # FrameThread
          /\ pc[FrameThread] \in {"attach", "run"}

\* C8: every invocation of WindowProcCallback has appended exactly one entry,
\* a failing OpenThread included: the entries broadcast and queued are the
\* calls made.
C8_PushNeverDrops == delivered \o Tuples(queue) = called

\* C9: HandleInputQueue never fails as a whole and never leaves an entry
\* behind: when it has returned and nothing was pushed since, it returned
\* normally and the queue is empty.
C9_DrainBestEffort ==
    last.op = "HandleInputQueue" => (last.exc = "none" /\ queue = <<>>)

(***************************************************************************)
(* Specification SpecKeys: one host thread receives key and other window   *)
(* messages, the overlay visible or hidden; the frame thread drains.       *)
(***************************************************************************)

KeyUp == [hwnd |-> HostWindow, msg |-> WM_KEYUP, wparam |-> VK_F9, lparam |-> 0,
          shift |-> TRUE]
RawInput == [hwnd |-> HostWindow, msg |-> WM_INPUT, wparam |-> 0, lparam |-> 3,
             shift |-> FALSE]
KeyCalls ==
    {KeyDown(VK_F9, repeat, shift) : repeat \in BOOLEAN, shift \in BOOLEAN}
        \cup {KeyDown(VK_F8, FALSE, TRUE), KeyUp, RawInput, MouseMove, Resize}

InitKeys ==
    InitWith(Screen, ZeroPoint, ArrowCursor, 0,
             <<MkDevice(HID_USAGE_PAGE_GENERIC, HID_USAGE_GENERIC_MOUSE, 0, NullWindow)>>,
             HostWindowAt(Screen))

NextKeys ==
    \/ \E c \in KeyCalls : WndProcEnter(1, c)
    \/ \E fail \in QueueFails : WindowProcCallback(1, fail)
    \/ HandleInputQueueBegin(FrameThread)
    \/ HandleInputQueueAttach(FrameThread, "none")
    \/ HandleInputQueueRun(FrameThread, "none", "none")

SpecKeys == InitKeys /\ [][NextKeys]_vars

\* C10: a WindowProcCallback call with a key-down of F9, the repeat bit
\* clear and Shift held has flipped the visibility and marked the message
\* handled, the overlay hidden or visible; a call with the repeat bit set or
\* without Shift has left the visibility as it was.
C10_HotkeyToggles ==
    last.op = "WindowProcCallback" =>
        IF /\ last.arg.msg = WM_KEYDOWN /\ last.arg.wparam = VK_F9
           /\ last.arg.lparam < 2^30 /\ last.arg.shift
        THEN last.visible = ~last.old_visible /\ last.handled
        ELSE last.visible = last.old_visible

\* C14: WindowProcCallback has marked the message handled exactly when it is
\* the toggle hotkey, or the overlay was visible and the message is a
\* raw-input, keyboard or mouse message (so with the overlay hidden no other
\* message than the hotkey is handled); and every message it was called with
\* has been queued, the overlay visible or hidden.
C14_HandledIffBlocked ==
    last.op = "WindowProcCallback" =>
        /\ last.handled <=>
               (IsToggleHotkey(last.arg) \/ (last.old_visible /\ IsBlockedMsg(last.arg.msg)))
        /\ delivered \o Tuples(queue) = called

(***************************************************************************)
(* Specification SpecMT: one thread runs the visibility transition         *)
(* statement by statement while the host calls the hooked APIs from        *)
(* another thread.                                                         *)
(***************************************************************************)

InitMT ==
    InitWith(MkRect(0, 0, 1, ScreenMax), [x |-> 1, y |-> 1], ArrowCursor, 0,
             <<MkDevice(HID_USAGE_PAGE_GENERIC, HID_USAGE_GENERIC_MOUSE, 0, NullWindow)>>,
             HostWindowAt(Screen))

NextMT ==
    \/ SetGuiVisibleBegin(1)
    \/ SetGuiVisibleStep(1, "none")
    \/ \E p \in Positions : CallGetCursorPos(<<p>>)
    \/ \E p \in Positions : CallSetCursorPos(p.x, p.y)
    \/ \E rect \in HostRectArgs : CallClipCursor(rect)
    \/ \E rect \in HostRectArgs : CallGetClipCursor(rect)

SpecMT == InitMT /\ [][NextMT]_vars

HookOps == {"GetCursorPos", "SetCursorPos", "ClipCursor", "GetClipCursor"}
Done(c, ops) == \A op \in ops : Count(c.ops, op) > 0

\* C6: no hook runs in a torn state of a transition: when a hook has run while
\* SetGuiVisibleForInput is in progress, then with the overlay visible the
\* position, clip rectangle and device snapshot of this turn-on are saved, and
\* with the overlay hidden the position, clip rectangle and devices of this
\* turn-off are restored.
C6_TransitionAtomic ==
    \A t \in Threads :
        (pc[t] = "transition" /\ last.op \in HookOps) =>
            LET c == call[t][1]
            IN IF gui_visible
               THEN Done(c, {"SaveCursorPos", "SaveClip", "Snapshot"})
               ELSE Done(c, {"RestoreCursorPos", "RestoreClip", "RestoreDevice"})

(***************************************************************************)
(* Specification SpecToggle: window messages are queued and drained while  *)
(* the overlay is toggled, by the hotkey or by a direct call.              *)
(***************************************************************************)

ToggleCalls == {KeyDown(VK_F9, FALSE, TRUE), KeyDown(VK_F8, FALSE, TRUE), MouseMove}

NextToggle ==
    \/ Toggle("none")
    \/ \E c \in ToggleCalls : WndProcEnter(1, c)
    \/ \E fail \in QueueFails : WindowProcCallback(1, fail)
    \/ HandleInputQueueBegin(FrameThread)
    \/ HandleInputQueueAttach(FrameThread, "none")
    \/ HandleInputQueueRun(FrameThread, "none", "none")

SpecToggle == InitKeys /\ [][NextToggle]_vars

\* C11: a step that changes the visibility, by the hotkey or by a direct
\* SetGuiVisible call, keeps every queued entry in place and unaltered (a
\* hotkey message is itself appended behind them) and broadcasts nothing; and
\* what was queued is what the drain broadcasts: the broadcast tuples followed
\* by the queued ones are always the pushed ones.
IsPrefix(q, r) == Len(q) <= Len(r) /\ SubSeq(r, 1, Len(q)) = q
C11_ToggleKeepsQueue ==
    /\ [][gui_visible' # gui_visible =>
            /\ IsPrefix(queue, queue')
            /\ Len(queue') <= Len(queue) + 1
            /\ delivered' = delivered]_vars
    /\ [](delivered \o Tuples(queue) = pushed)

\* A keyboard message, the hotkey and a second (now blocked) keyboard message
\* were pending while the overlay was toggled on, and the drain has broadcast
\* all three.
C11_Witness ==
    /\ called = <<CallTuple(KeyDown(VK_F8, FALSE, TRUE)),
                  CallTuple(KeyDown(VK_F9, FALSE, TRUE)),
                  CallTuple(KeyDown(VK_F8, FALSE, TRUE))>>
    /\ delivered = called
    /\ gui_visible
    /\ last.op = "HandleInputQueue"

(***************************************************************************)
(* Specification SpecShow: the host shows and hides the cursor while the   *)
(* overlay is toggled.                                                     *)
(***************************************************************************)

ShowFails == {"none", "SetCursorPos"}

InitShow ==
    \E show \in {0 - 1, 0, 1} : \E pos \in Positions :
        InitWith(Screen, pos, ArrowCursor, show, <<>>, HostWindowAt(Screen))

NextShow ==
    \/ \E fail \in ShowFails : Toggle(fail)
    \/ Refresh("none")
    \/ \E show \in BOOLEAN : CallShowCursor(show)

SpecShow == InitShow /\ [][NextShow]_vars

\* C12: a ShowCursor call of the host made while the overlay is visible
\* changes the show-count by exactly +1 (show) or -1 (hide) and nothing else,
\* yields the new count as the call's value, is marked handled and leaves the
\* OS display count alone.  (Each call's effect being +1 or -1 whatever the
\* count, as many shows as hides bring the count back to where it was.)
C12_ShowCountStep ==
    [][(gui_visible /\ last'.op = "ShowCursor") =>
          /\ show_cursor_count' =
                 show_cursor_count + (IF last'.arg = <<TRUE>> THEN 1 ELSE 0 - 1)
          /\ last'.retval = <<show_cursor_count'>>
          /\ last'.handled
          /\ UNCHANGED <<gui_visible, old_cursor, old_cursor_pos, old_clip_cursor,
                         old_devices, disable, osVars>>]_vars

C12_Witness ==
    /\ gui_visible /\ last.op = "ShowCursor" /\ last.handled
    /\ last.arg = <<FALSE>> /\ last.retval = <<0 - 1>>
    /\ os_show = before.os_show + 1

\* C17: when a turn-off has returned, the show-count is zero, whatever
\* ShowCursor calls the host made while the overlay was visible.
C17_ShowCountZeroAfterTurnOff ==
    (last.op = "SetGuiVisible" /\ ~last.visible /\ last.old_visible /\ last.exc = "none")
        => show_cursor_count = 0

(***************************************************************************)
(* Specification SpecGuard: transitions and drains that end normally, by   *)
(* an early return or by a failing OS call, with subscribers that toggle   *)
(* the overlay from inside the drain.                                      *)
(***************************************************************************)

GuardFails == {"none", "SetCursorPos", "ClipCursor"}

InitGuard ==
    \E wnd \in {NoWindow, HostWindowAt(Screen)} :
    \E devices \in {<<>>, <<MkDevice(HID_USAGE_PAGE_GENERIC, HID_USAGE_GENERIC_MOUSE,
                                      0, NullWindow),
                             MkDevice(HID_USAGE_PAGE_GENERIC, HID_USAGE_GENERIC_KEYBOARD,
                                      0, NullWindow)>>} :
        InitWith(Screen, ZeroPoint, ArrowCursor, 0, devices, wnd)

NextGuard ==
    \/ \E fail \in GuardFails : Toggle(fail)
    \/ Refresh("none")
    \/ WndProcEnter(1, MouseMove)
    \/ WindowProcCallback(1, "none")
    \/ HandleInputQueueBegin(FrameThread)
    \/ \E fail \in {"none", "AttachThreadInput"} : HandleInputQueueAttach(FrameThread, fail)
    \/ \E sub \in Subscribers, fail \in GuardFails : HandleInputQueueRun(FrameThread, sub, fail)

SpecGuard == InitGuard /\ [][NextGuard]_vars

C20_OwnCallsNotIntercepted ==
    last.op \in {"SetGuiVisible", "HandleInputQueue"} =>
        \A i \in 1..Len(last.ops) : last.ops[i] # "Intercepted"

\* A turn-on and a turn-off that made every one of these calls have returned.
C20_Witness ==
    /\ last.op = "SetGuiVisible" /\ ~last.visible /\ last.old_visible
    /\ last.exc = "none" /\ before.ok /\ window.valid
    /\ Count(last.ops, "RestoreCursorPos") = 1
    /\ Count(last.ops, "RestoreClip") = 1
    /\ Count(last.ops, "RestoreDevice") = 2
    /\ os_show = before.os_show
    /\ Count(last.ops, "Intercepted") = 0

(***************************************************************************)
(* Further properties of SpecPos, SpecRaw and SpecClip.                    *)
(***************************************************************************)

\* C15: a no-transition call SetGuiVisibleForInput(v, v) that returns saves
\* and restores nothing and leaves the OS cursor position alone; with v true
\* it keeps the saved cursor position and its flag (so GetCursorPos answers
\* as before), with v false it clears the flag.
C15_NoTransitionKeepsSavedPos ==
    [][(last'.op = "SetGuiVisible" /\ last'.visible = last'.old_visible
            /\ last'.exc = "none") =>
          /\ last'.ops = <<>>
          /\ os_pos' = os_pos
          /\ IF last'.visible
             THEN old_cursor_pos' = old_cursor_pos
             ELSE ~old_cursor_pos'.first]_vars

\* C16: when a turn-on has returned, the snapshot is the device list that was
\* registered when it began, empty or without mouse and keyboard included;
\* when a turn-off has returned, the snapshot is empty.
C16_SnapshotLifecycle ==
    /\ (last.op = "SetGuiVisible" /\ last.visible /\ ~last.old_visible
            /\ last.exc = "none")
          => old_devices = before.os_devices
    /\ (last.op = "SetGuiVisible" /\ ~last.visible /\ last.old_visible
            /\ last.exc = "none")
          => old_devices = <<>>

\* C18: while the overlay is visible, every ClipCursor and GetClipCursor call
\* of the host, a null rectangle included, is marked handled and leaves the
\* OS clip rectangle as it is.
C18_ClipCallsHandled ==
    [][(gui_visible /\ last'.op \in {"ClipCursor", "GetClipCursor"}) =>
          /\ last'.handled
          /\ os_clip' = os_clip]_vars

(***************************************************************************)
(* Specification SpecCursor: the host sets the cursor, the overlay hidden  *)
(* or visible, while the overlay is toggled and refreshed.                 *)
(***************************************************************************)

CursorFails == {"none", "LoadCursorW", "SetCursorPos"}

InitCursor ==
    \E cursor \in Cursors :
        InitWith(Screen, ZeroPoint, cursor, 0, <<>>, HostWindowAt(Screen))

NextCursor ==
    \/ \E fail \in CursorFails : Toggle(fail)
    \/ Refresh("none")
    \/ \E cursor \in Cursors : CallSetCursor(cursor)

SpecCursor == InitCursor /\ [][NextCursor]_vars

\* C19: when a turn-on has returned, the cursor recorded is the one the OS
\* had when it began and the OS cursor is the arrow; a SetCursor call of the
\* host made while the overlay is visible yields the recorded cursor, records
\* the requested one, is marked handled and leaves the OS cursor alone; and a
\* turn-off that returns after a turn-on that returned sets the OS cursor to
\* the cursor the host requested last since the turn-on, or without such a
\* request to the one the OS had before the turn-on.
C19_CursorSaveRestore ==
    /\ []((last.op = "SetGuiVisible" /\ last.visible /\ ~last.old_visible
              /\ last.exc = "none")
            => /\ old_cursor = [first |-> TRUE, second |-> before.os_cursor]
               /\ os_cursor = ArrowCursor)
    /\ [][(gui_visible /\ last'.op = "SetCursor") =>
             /\ last'.handled
             /\ last'.retval = <<old_cursor.second>>
             /\ old_cursor' = [first |-> TRUE, second |-> last'.arg[1]]
             /\ os_cursor' = os_cursor]_vars
    /\ [][(last'.op = "SetGuiVisible" /\ ~last'.visible /\ last'.old_visible
              /\ last'.exc = "none" /\ before.ok) =>
             os_cursor' = IF "SetCursor" \in since THEN old_cursor.second
                          ELSE before.os_cursor]_vars

\* The host requested another cursor while the overlay was visible, and the
\* turn-off has made it the OS cursor.
C19_Witness ==
    /\ last.op = "SetGuiVisible" /\ ~last.visible /\ last.old_visible
    /\ last.exc = "none" /\ before.ok
    /\ "SetCursor" \in since
    /\ os_cursor \notin {before.os_cursor, ArrowCursor}

(***************************************************************************)
(* Further properties of SpecQueue.                                        *)
(***************************************************************************)

\* The threads the OS has attached thread d's input to.
AttachedTo(att, d) == {a[2] : a \in {b \in att : b[1] = d}}

\* C21: when a LazyAttachThreadInput call on thread d has returned or thrown,
\* d is attached to at most one thread and the recorded last-attached thread
\* id is that thread (0 when there is none); and a call whose target is the
\* recorded one has made no OS attach or detach.
C21_AttachInvariant ==
    [][\A d \in Threads :
          (pc[d] = "attach" /\ pc'[d] # "attach") =>
             /\ AttachedTo(attached', d) =
                    IF last_attached_tid'[d] = NoThread THEN {}
                    ELSE {last_attached_tid'[d]}
             /\ Head(queue).tid_ = last_attached_tid[d] => attached' = attached]_vars

(***************************************************************************)
(* Specification SpecNested: subscribers push window messages from inside  *)
(* the drain, on the draining thread, while a host thread pushes too.      *)
(***************************************************************************)

NestedCalls == {MouseMove, Resize}

DrainStep(d) ==
    \/ HandleInputQueueAttach(d, "none")
    \/ HandleInputQueueRun(d, "none", "none")
    \/ \E fail \in QueueFails : NestedWindowProcCallback(d, fail)

NextNested ==
    \/ \E c \in NestedCalls : WndProcEnter(1, c)
    \/ WindowProcCallback(1, "none")
    \/ HandleInputQueueBegin(FrameThread)
    \/ DrainStep(FrameThread)
    \/ \E c \in NestedCalls : SubscriberPushes(FrameThread, c)

SpecNested == InitQueue /\ [][NextNested]_vars

\* The same with the frame thread scheduled: a drain that can take a step
\* eventually takes one.
FairNested == SpecNested /\ WF_vars(DrainStep(FrameThread))

\* Every HandleInputQueue call that was begun ends (under FairNested).
DrainEnds == (pc[FrameThread] # "idle") ~> (pc[FrameThread] = "idle")

C23_DisplayCountRoundTrip ==
    [][(/\ last'.op = "SetGuiVisible" /\ ~last'.visible /\ last'.old_visible
        /\ last'.exc = "none"
        /\ before.ok
        /\ since \cap {"ShowCursor", "TurnOff"} = {})
          => os_show' = before.os_show]_vars

====
